---- MODULE Spec2Model ----
(***************************************************************************)
(* ResearchRender: the upload pipeline of app.py (process_file) and the    *)
(* cached, rate-limited generation of cached_code_generation.py            *)
(* (process_paper, convert_paper_to_steps, steps_to_code, rate_limit,      *)
(* load_cache, save_cache).                                                *)
(*                                                                         *)
(* Each worker thread serves one upload at a time.  A step of the model is *)
(* one access to shared state (a MongoDB operation, a read or write of a   *)
(* module-level rate-limit variable, a clock read, an external call)       *)
(* together with the local computation that follows it.                    *)
(***************************************************************************)
EXTENDS Integers, Sequences, FiniteSets, TLC

\* ---------------------------------------------------------------- bounds

\* Worker threads serving uploads concurrently.
Threads == {1, 2}

\* Uploads served in one behaviour: by concurrent workers, by a single worker,
\* and by concurrent workers that are all sent the same file.
MaxUploads == 2
MaxUploadsSeq == 3
MaxUploadsSame == 3

\* Calls of rate_limit made in one behaviour when it is exercised on its own.
MaxAcquires == 3

\* The wall clock at start-up and the last instant modelled.
StartTime == 4
MaxTime == 14

\* How far the clock may have moved on between two reads of it.
MaxJitter == 1

\* ------------------------------------------------------ program constants

GEMINI_RATE_LIMIT == 15
GROQ_RATE_LIMIT == 30
max_retries_short == 3 - 1
max_retries == 3
retry_delay == 5

\* ------------------------------------------------------------ Python values

\* None, a str and a 2-tuple, kept apart as Python keeps them.
None == <<"None">>
Str(s) == <<"str", s>>
Pair(a, b) == <<"tuple", a, b>>

\* bool(v) as the `if x:` tests of the code evaluate it.
Truthy(v) == v # None /\ v # Str("")

\* ------------------------------------------------------------------ inputs

\* Uploaded byte contents: a plain-text file, a PDF of another paper, and a PDF
\* whose text is that of the plain-text file.
Files == {"t1", "pdf1", "pdf_t1"}
IsPdf(file_content) == file_content \in {"pdf1", "pdf_t1"}
Filenames == {"paper.txt", "paper.pdf"}
Uploads == Files \X Filenames

\* The uploads whose name fits their content, and those of the first two files.
NamedUploads ==
    {u \in Uploads : IsPdf(u[1]) <=> u[2] = "paper.pdf"}
TwoFileUploads == {u \in Uploads : u[1] # "pdf_t1"}

\* What the two generative services can answer: a text, possibly the empty one.
StepsTexts == {"", "s1"}
CodeTexts == {"", "c1"}

\* The arguments rate_limit is called with: the two services and another name.
ApiTypes == {"gemini", "groq", "other"}

\* Outcomes of model.generate_content and of chat.completions.create.
GeminiOutcomes == {"ok", "InternalServerError", "ResourceExhausted", "Exception"}
GroqOutcomes == {"ok", "Exception"}

VARIABLES
    files,                \* files_collection: the PaperRecords, in insertion order
    cache,                \* cache_collection: the CacheEntries
    last_gemini_request,  \* module-level timestamp of rate_limit
    last_groq_request,    \* module-level timestamp of rate_limit
    now,                  \* the latest time.time() any thread has observed
    store_faults,         \* whether MongoDB operations may raise
    offered,              \* the (file_content, filename) pairs clients upload
    budget,               \* uploads still to be accepted
    drift,                \* how far the clock may move between two reads of it
    completed,            \* per fingerprint: what the first upload that produced
                          \* and persisted both steps and code returned
    frame                 \* per thread: the locals of the upload it serves

vars == <<files, cache, last_gemini_request, last_groq_request, now,
          store_faults, offered, budget, drift, completed, frame>>

\* ----------------------------------------------------------- pure helpers

Max(a, b) == IF a >= b THEN a ELSE b

\* hashlib.md5(...).hexdigest(): collision-free on the modelled inputs.
Md5(bytes) == "md5:" \o bytes

\* get_content_hash(content): md5 of the utf-8 encoding of the text.
get_content_hash(content) == Md5(content)

\* extract_text_from_pdf: the text of a PDF, None when PyPDF2 raises.
extract_text_from_pdf(file_content) ==
    IF file_content = "pdf_t1" THEN Str("t1")
    ELSE IF IsPdf(file_content) THEN Str("paper:" \o file_content)
    ELSE None

\* file_content.decode('utf-8'): None stands for UnicodeDecodeError.
Utf8Decode(file_content) ==
    IF IsPdf(file_content) THEN None ELSE Str(file_content)

\* 60 / RATE_LIMIT for the two known api types.
MinInterval(api_type) ==
    IF api_type = "gemini" THEN 60 \div GEMINI_RATE_LIMIT
    ELSE 60 \div GROQ_RATE_LIMIT

\* The module-level timestamp rate_limit uses for the api type.
LastRequest_Shared(api_type) == last_gemini_request
LastRequest(api_type) ==
    IF api_type = "gemini" THEN last_gemini_request ELSE last_groq_request

\* time.time() as thread t can observe it: not before the latest observation,
\* not before the end of the thread's own sleep, and up to MaxTime possibly
\* later than that by the drift.
Clock(t) ==
    LET lo == Max(now, frame[t].wake)
    IN  {v \in lo..(lo + drift) : v <= MaxTime}

\* The outcomes of a MongoDB operation.
DbOutcomes == IF store_faults THEN {TRUE, FALSE} ELSE {TRUE}

\* The document find_one yields when nothing matches (Python's None): id 0.
NoFile ==
    [id |-> 0, filename |-> "", content_hash |-> "", steps |-> None, code |-> None]

\* files_collection.find_one({'content_hash': h}): the first match in natural
\* (insertion) order, None when there is none.
FindOne(h) ==
    LET hits == {i \in 1..Len(files) : files[i].content_hash = h}
    IN  IF hits = {} THEN NoFile
        ELSE files[CHOOSE i \in hits : \A j \in hits : i <= j]

\* cache_collection.find_one({"content_hash": h, "type": ty}) inside load_cache.
load_cache_hit(h, ty) ==
    LET hits == {e \in cache : e.content_hash = h /\ e.type = ty}
    IN  IF hits = {} THEN None ELSE (CHOOSE e \in hits : TRUE).data

\* load_cache: the entry's data, None on a miss and on any exception.
load_cache_miss(h, ty, ok) == None
load_cache(h, ty, ok) == IF ok THEN load_cache_hit(h, ty) ELSE None

\* save_cache: upsert of the (content_hash, type) entry; an exception is logged
\* and swallowed, leaving the collection as it was.
save_cache_insert(h, ty, data, ok) ==
    IF ok THEN cache \cup {[content_hash |-> h, type |-> ty, data |-> data]}
    ELSE cache
save_cache(h, ty, data, ok) ==
    IF ok
    THEN {e \in cache : ~(e.content_hash = h /\ e.type = ty)}
         \cup {[content_hash |-> h, type |-> ty, data |-> data]}
    ELSE cache

\* The text inside a Python str value.
TextOf(v) == v[2]

\* ------------------------------------------------------------------- state

\* What process_file hands to upload_file: a dict ("dict"), a (dict, 500) pair
\* ("dict_500") or an exception that propagates ("raised"); absent keys are None.
Result(kind, steps, code, message, error) ==
    [kind |-> kind, steps |-> steps, code |-> code,
     message |-> message, error |-> error]

NoResult == Result("none", None, None, None, None)

IdleFrame ==
    [pc |-> "idle", file_content |-> "", filename |-> "",
     content_hash |-> "", existing_file |-> NoFile,
     content |-> None, steps |-> None, code |-> None,
     attempt |-> 0, api_type |-> "", ret |-> "", current_time |-> 0,
     sleep_time |-> 0, wake |-> 0, stamp |-> 0, result |-> NoResult,
     \* instrumentation of the stubbed services and stores, per upload
     gemini_acquires |-> 0, gemini_calls |-> 0, last_outcome |-> "",
     groq_acquires |-> 0, groq_calls |-> 0, wrote |-> {}, failed |-> {},
     prior |-> NoResult]

\* After start-up: empty collections, no request sent yet to either service.
Start(faults, inputs, n, d) ==
    /\ files = <<>>
    /\ cache = {}
    /\ last_gemini_request = 0
    /\ last_groq_request = 0
    /\ now = StartTime
    /\ store_faults = faults
    /\ offered = inputs
    /\ budget = n
    /\ drift = d
    /\ completed = [f \in Files |-> NoResult]
    /\ frame = [t \in Threads |-> IdleFrame]

Init == Start(FALSE, TwoFileUploads, MaxUploads, 0)

\* ----------------------------------------------------------------- actions

\* The index in files of the document with the given id.
IndexOfId(id) == CHOOSE i \in 1..Len(files) : files[i].id = id

\* process_paper(content, generate_steps): where it starts.  With
\* generate_steps it runs convert_paper_to_steps(content), without it
\* steps = content and only steps_to_code runs.
process_paper_entry(generate_steps) ==
    IF generate_steps THEN "steps_load_cache" ELSE "code_load_cache"

\* The resume branch calls process_paper(existing_file['steps'],
\* generate_steps=False); a call without the keyword would default to True.
resume_generate_steps_default == TRUE
resume_generate_steps == FALSE

\* process_file, from its entry to the call of process_paper: the fingerprint,
\* the lookup of an existing record, the early return when steps and code are
\* both there, the resume branch, and the text extraction of a new file.
process_file(t, file_content, filename) ==
    /\ frame[t].pc \in {"idle", "done"}
    /\ <<file_content, filename>> \in offered
    /\ budget > 0
    /\ budget' = budget - 1
    /\ \E ok \in DbOutcomes :
        LET content_hash == Md5(file_content)
            existing_file == FindOne(content_hash)
            started == [IdleFrame EXCEPT !.file_content = file_content,
                                         !.filename = filename,
                                         !.content_hash = content_hash,
                                         !.prior = completed[file_content]]
            paper_content ==
                IF filename = "paper.pdf"
                THEN extract_text_from_pdf(file_content)
                ELSE Utf8Decode(file_content)
        IN  frame' = [frame EXCEPT ![t] =
              IF ~ok
              THEN [started EXCEPT !.pc = "done",
                      !.failed = {"find_one"},
                      !.result = Result("raised", None, None, None,
                                        Str("find_one"))]
              ELSE IF existing_file.id # 0 /\ Truthy(existing_file.steps)
                      /\ Truthy(existing_file.code)
              THEN [started EXCEPT !.pc = "done",
                      !.existing_file = existing_file,
                      !.result = Result("dict", existing_file.steps,
                                        existing_file.code,
                                        Str("File has been processed before. Returning existing results."),
                                        None)]
              ELSE IF existing_file.id # 0 /\ Truthy(existing_file.steps)
              THEN [started EXCEPT
                      !.pc = process_paper_entry(resume_generate_steps),
                      !.existing_file = existing_file,
                      !.content = existing_file.steps,
                      !.steps = IF resume_generate_steps THEN None
                                ELSE existing_file.steps]
              ELSE IF paper_content = None /\ filename = "paper.pdf"
              THEN [started EXCEPT !.pc = "done",
                      !.existing_file = existing_file,
                      !.result = Result("dict_500", None, None, None,
                                        Str("Failed to extract text from PDF"))]
              ELSE IF paper_content = None
              THEN [started EXCEPT !.pc = "done",
                      !.existing_file = existing_file,
                      !.result = Result("raised", None, None, None,
                                        Str("UnicodeDecodeError"))]
              ELSE [started EXCEPT !.pc = process_paper_entry(TRUE),
                      !.existing_file = existing_file,
                      !.content = paper_content]]
    /\ UNCHANGED <<files, cache, last_gemini_request, last_groq_request, now,
                   store_faults, offered, drift, completed>>

\* Whether the upload runs the resume branch of process_file.
Resuming(t) ==
    /\ frame[t].existing_file.id # 0
    /\ Truthy(frame[t].existing_file.steps)
    /\ ~Truthy(frame[t].existing_file.code)

\* convert_paper_to_steps up to the retry loop: the cache lookup by the paper
\* text's hash; a truthy entry is returned without any call.
steps_load_cache(t) ==
    /\ frame[t].pc = "steps_load_cache"
    /\ \E ok \in DbOutcomes :
        LET content_hash == get_content_hash(TextOf(frame[t].content))
            cached_steps == load_cache(content_hash, "steps", ok)
        IN  frame' = [frame EXCEPT ![t] =
              IF Truthy(cached_steps)
              THEN [@ EXCEPT !.pc = "code_load_cache", !.steps = cached_steps]
              ELSE [@ EXCEPT !.pc = "rate_limit_time", !.api_type = "gemini",
                             !.ret = "generate_content", !.attempt = 0,
                             !.failed = IF ok THEN @
                                        ELSE @ \cup {"load_cache:steps"}]]
    /\ UNCHANGED <<files, cache, last_gemini_request, last_groq_request, now,
                   store_faults, offered, budget, drift, completed>>

\* The result of process_file when process_paper hands back steps = None.
StepsFailure ==
    Result("dict_500", None, None, None,
           Str("Failed to generate steps from the paper"))

\* process_file: `if steps is None` after process_paper has returned.
StepsMissing_Never(steps) == FALSE
StepsMissing(steps) == steps = None

\* process_paper: `if code is None: return steps, None`.
CodeFailureReturn_Nothing(steps) == <<None, None>>
CodeFailureReturn(steps) == <<steps, None>>

\* rate_limit(api_type) called on its own, outside the pipeline.
rate_limit(t, api_type) ==
    /\ frame[t].pc \in {"idle", "done"}
    /\ budget > 0
    /\ budget' = budget - 1
    /\ frame' = [frame EXCEPT ![t] =
          [IdleFrame EXCEPT !.pc = "rate_limit_time", !.api_type = api_type,
                            !.ret = "done"]]
    /\ UNCHANGED <<files, cache, last_gemini_request, last_groq_request, now,
                   store_faults, offered, drift, completed>>

\* rate_limit: current_time = time.time().
rate_limit_time(t) ==
    /\ frame[t].pc = "rate_limit_time"
    /\ \E v \in Clock(t) :
        /\ now' = v
        /\ frame' = [frame EXCEPT ![t] =
              [@ EXCEPT !.pc = "rate_limit_check", !.current_time = v,
                        !.wake = 0, !.sleep_time = 0]]
    /\ UNCHANGED <<files, cache, last_gemini_request, last_groq_request,
                   store_faults, offered, budget, drift, completed>>

\* rate_limit: the branch on api_type and the test
\* current_time - last_request < 60 / RATE_LIMIT; any other api_type logs a
\* warning and returns.
rate_limit_check(t) ==
    /\ frame[t].pc = "rate_limit_check"
    /\ frame' = [frame EXCEPT ![t] =
          IF frame[t].api_type \notin {"gemini", "groq"}
          THEN [@ EXCEPT !.pc = frame[t].ret, !.current_time = 0]
          ELSE IF frame[t].current_time - LastRequest(frame[t].api_type)
                    < MinInterval(frame[t].api_type)
          THEN [@ EXCEPT !.pc = "rate_limit_sleep"]
          ELSE [@ EXCEPT !.pc = "rate_limit_now"]]
    /\ UNCHANGED <<files, cache, last_gemini_request, last_groq_request, now,
                   store_faults, offered, budget, drift, completed>>

\* rate_limit: sleep_time = 60 / RATE_LIMIT - (current_time - last_request).
SleepTime_Elapsed(interval, current_time, last_request) ==
    current_time - last_request
SleepTime(interval, current_time, last_request) ==
    interval - (current_time - last_request)

\* rate_limit: sleep_time is computed from a second read of the timestamp, and
\* time.sleep(sleep_time) begins.  time.sleep raises ValueError for a negative
\* argument: convert_paper_to_steps re-raises it and process_paper returns
\* (None, None); steps_to_code logs it and returns None; a caller of
\* rate_limit on its own gets the exception.
rate_limit_sleep(t) ==
    /\ frame[t].pc = "rate_limit_sleep"
    /\ LET sleep_time == SleepTime(MinInterval(frame[t].api_type),
                                   frame[t].current_time,
                                   LastRequest(frame[t].api_type))
           raised == [frame[t] EXCEPT !.sleep_time = sleep_time,
                                      !.current_time = 0,
                                      !.failed = @ \cup {"rate_limit"}]
           returned == CodeFailureReturn(frame[t].steps)
       IN  frame' = [frame EXCEPT ![t] =
              IF sleep_time >= 0
              THEN [@ EXCEPT !.pc = "rate_limit_now", !.sleep_time = sleep_time,
                             !.wake = frame[t].current_time + sleep_time]
              ELSE IF frame[t].ret = "generate_content"
              THEN [raised EXCEPT !.pc = "done", !.result = StepsFailure]
              ELSE IF frame[t].ret = "done"
              THEN [raised EXCEPT !.pc = "done",
                      !.result = Result("raised", None, None, None,
                                        Str("ValueError"))]
              ELSE IF ~Resuming(t) /\ StepsMissing(returned[1])
              THEN [raised EXCEPT !.pc = "done", !.steps = returned[1],
                                  !.code = returned[2], !.result = StepsFailure]
              ELSE [raised EXCEPT !.pc = "store_record", !.steps = returned[1],
                                  !.code = returned[2]]]
    /\ UNCHANGED <<files, cache, last_gemini_request, last_groq_request, now,
                   store_faults, offered, budget, drift, completed>>

\* rate_limit: the sleep (if any) is over and the right-hand side of
\* last_request = time.time() is evaluated.
rate_limit_now(t) ==
    /\ frame[t].pc = "rate_limit_now"
    /\ \E v \in Clock(t) :
        /\ now' = v
        /\ frame' = [frame EXCEPT ![t] =
              [@ EXCEPT !.pc = "rate_limit_stamp", !.stamp = v, !.wake = 0]]
    /\ UNCHANGED <<files, cache, last_gemini_request, last_groq_request,
                   store_faults, offered, budget, drift, completed>>

\* rate_limit: the value read is stored in the module-level variable of the
\* service, and rate_limit returns.
rate_limit_stamp(t) ==
    /\ frame[t].pc = "rate_limit_stamp"
    /\ IF frame[t].api_type = "gemini"
       THEN /\ last_gemini_request' = frame[t].stamp
            /\ UNCHANGED last_groq_request
       ELSE /\ last_groq_request' = frame[t].stamp
            /\ UNCHANGED last_gemini_request
    /\ frame' = [frame EXCEPT ![t] =
          [@ EXCEPT !.pc = frame[t].ret,
                    !.stamp = 0, !.current_time = 0,
                    !.gemini_acquires = IF frame[t].api_type = "gemini"
                                        THEN @ + 1 ELSE @,
                    !.groq_acquires = IF frame[t].api_type = "groq"
                                      THEN @ + 1 ELSE @]]
    /\ UNCHANGED <<files, cache, now,
                   store_faults, offered, budget, drift, completed>>

\* What one pass of the retry loop does with the outcome of the Gemini call:
\* "ok" goes on to save_cache, an InternalServerError with attempts left
\* sleeps and retries, anything else is raised (and process_paper turns the
\* exception into (None, None)).
RetryDecision_RetryAll(outcome, attempt) ==
    IF outcome = "ok" THEN "save"
    ELSE IF attempt < max_retries - 1 THEN "retry"
    ELSE "raise"
RetryDecision(outcome, attempt) ==
    IF outcome = "ok" THEN "save"
    ELSE IF outcome = "InternalServerError" /\ attempt < max_retries - 1
    THEN "retry"
    ELSE "raise"

\* convert_paper_to_steps: one attempt of model.generate_content(prompt).
generate_content(t, outcome, text) ==
    /\ frame[t].pc = "generate_content"
    /\ LET decision == RetryDecision(outcome, frame[t].attempt)
           called == [frame[t] EXCEPT !.gemini_calls = @ + 1,
                                      !.last_outcome = outcome,
                                      !.sleep_time = 0]
       IN  frame' = [frame EXCEPT ![t] =
             IF decision = "save"
             THEN [called EXCEPT !.pc = "steps_save_cache", !.steps = Str(text)]
             ELSE IF decision = "retry"
             THEN [called EXCEPT !.pc = "rate_limit_time",
                                 !.attempt = frame[t].attempt + 1,
                                 !.wake = now + retry_delay]
             ELSE IF StepsMissing(None)
             THEN [called EXCEPT !.pc = "done", !.result = StepsFailure]
             ELSE [called EXCEPT !.pc = "store_record"]]
    /\ UNCHANGED <<files, cache, last_gemini_request, last_groq_request, now,
                   store_faults, offered, budget, drift, completed>>

\* convert_paper_to_steps: save_cache(content_hash, "steps", steps); return.
steps_save_cache(t) ==
    /\ frame[t].pc = "steps_save_cache"
    /\ \E ok \in DbOutcomes :
        /\ cache' = save_cache(get_content_hash(TextOf(frame[t].content)),
                               "steps", frame[t].steps, ok)
        /\ frame' = [frame EXCEPT ![t] =
              [@ EXCEPT !.pc = "code_load_cache",
                        !.wrote = IF ok THEN @ \cup {"cache:steps"} ELSE @,
                        !.failed = IF ok THEN @ ELSE @ \cup {"cache:steps"}]]
    /\ UNCHANGED <<files, last_gemini_request, last_groq_request, now,
                   store_faults, offered, budget, drift, completed>>

\* steps_to_code up to the call: the cache lookup by the steps text's hash; a
\* truthy entry is returned without any call.
code_load_cache(t) ==
    /\ frame[t].pc = "code_load_cache"
    /\ \E ok \in DbOutcomes :
        LET content_hash == get_content_hash(TextOf(frame[t].steps))
            cached_code == load_cache(content_hash, "code", ok)
        IN  frame' = [frame EXCEPT ![t] =
              IF Truthy(cached_code)
              THEN [@ EXCEPT !.pc = "store_record", !.code = cached_code]
              ELSE [@ EXCEPT !.pc = "rate_limit_time", !.api_type = "groq",
                             !.ret = "completions_create",
                             !.failed = IF ok THEN @
                                        ELSE @ \cup {"load_cache:code"}]]
    /\ UNCHANGED <<files, cache, last_gemini_request, last_groq_request, now,
                   store_faults, offered, budget, drift, completed>>

\* steps_to_code: the single call groq_client.chat.completions.create; any
\* exception is logged and None is returned, and process_paper returns
\* (steps, None) to process_file, which on the new-file path tests steps.
completions_create(t, outcome, text) ==
    /\ frame[t].pc = "completions_create"
    /\ LET called == [frame[t] EXCEPT !.groq_calls = @ + 1,
                                      !.last_outcome = outcome,
                                      !.sleep_time = 0]
           returned == CodeFailureReturn(frame[t].steps)
       IN  frame' = [frame EXCEPT ![t] =
             IF outcome = "ok"
             THEN [called EXCEPT !.pc = "code_save_cache", !.code = Str(text)]
             ELSE IF ~Resuming(t) /\ StepsMissing(returned[1])
             THEN [called EXCEPT !.pc = "done", !.steps = returned[1],
                                 !.code = returned[2], !.result = StepsFailure]
             ELSE [called EXCEPT !.pc = "store_record", !.steps = returned[1],
                                 !.code = returned[2]]]
    /\ UNCHANGED <<files, cache, last_gemini_request, last_groq_request, now,
                   store_faults, offered, budget, drift, completed>>

\* steps_to_code: save_cache(content_hash, "code", generated_code); return.
code_save_cache(t) ==
    /\ frame[t].pc = "code_save_cache"
    /\ \E ok \in DbOutcomes :
        /\ cache' = save_cache(get_content_hash(TextOf(frame[t].steps)),
                               "code", frame[t].code, ok)
        /\ frame' = [frame EXCEPT ![t] =
              [@ EXCEPT !.pc = "store_record",
                        !.wrote = IF ok THEN @ \cup {"cache:code"} ELSE @,
                        !.failed = IF ok THEN @ ELSE @ \cup {"cache:code"}]]
    /\ UNCHANGED <<files, last_gemini_request, last_groq_request, now,
                   store_faults, offered, budget, drift, completed>>

\* The record of first completions once thread t has persisted and returned
\* steps and code: set when both are there and nothing was recorded before.
Completed(t, steps, code) ==
    IF Truthy(steps) /\ Truthy(code)
       /\ completed[frame[t].file_content].kind = "none"
    THEN [completed EXCEPT ![frame[t].file_content] =
              Result("dict", steps, code, None, None)]
    ELSE completed

\* What the resume branch of process_file binds to its variable `code`: the
\* value process_paper returns, which is the pair (steps, code).
ResumedCode(steps, code) == Pair(steps, code)

\* process_file, new file: process_paper has returned (steps, code) with
\* steps not None; the record is inserted and both are returned.  An
\* exception of insert_one propagates to upload_file.
insert_one(t) ==
    /\ frame[t].pc = "store_record"
    /\ ~Resuming(t)
    /\ \E ok \in DbOutcomes :
        IF ok
        THEN /\ files' = Append(files,
                    [id |-> Len(files) + 1, filename |-> frame[t].filename,
                     content_hash |-> frame[t].content_hash,
                     steps |-> frame[t].steps, code |-> frame[t].code])
             /\ completed' = Completed(t, frame[t].steps, frame[t].code)
             /\ frame' = [frame EXCEPT ![t] =
                   [@ EXCEPT !.pc = "done",
                             !.wrote = @ \cup {"insert_one"},
                             !.result = Result("dict", frame[t].steps,
                                               frame[t].code, None, None)]]
        ELSE /\ UNCHANGED <<files, completed>>
             /\ frame' = [frame EXCEPT ![t] =
                   [@ EXCEPT !.pc = "done",
                             !.failed = @ \cup {"insert_one"},
                             !.result = Result("raised", None, None, None,
                                               Str("insert_one"))]]
    /\ UNCHANGED <<cache, last_gemini_request, last_groq_request, now,
                   store_faults, offered, budget, drift>>

\* process_file, resume branch: code = process_paper(steps, generate_steps=
\* False) is written onto the existing record and returned with its steps.  An
\* exception of update_one is caught and becomes an error of status 500.
update_one(t) ==
    /\ frame[t].pc = "store_record"
    /\ Resuming(t)
    /\ \E ok \in DbOutcomes :
        LET code == ResumedCode(frame[t].steps, frame[t].code)
        IN  IF ok
            THEN /\ files' = [files EXCEPT
                        ![IndexOfId(frame[t].existing_file.id)].code = code]
                 /\ completed' = Completed(t, frame[t].existing_file.steps, code)
                 /\ frame' = [frame EXCEPT ![t] =
                       [@ EXCEPT !.pc = "done",
                                 !.wrote = @ \cup {"update_one"},
                                 !.result = Result("dict",
                                     frame[t].existing_file.steps, code,
                                     Str("Steps existed. Generated new code."),
                                     None)]]
            ELSE /\ UNCHANGED <<files, completed>>
                 /\ frame' = [frame EXCEPT ![t] =
                       [@ EXCEPT !.pc = "done",
                                 !.failed = @ \cup {"update_one"},
                                 !.result = Result("dict_500", None, None, None,
                                     Str("Error generating code"))]]
    /\ UNCHANGED <<cache, last_gemini_request, last_groq_request, now,
                   store_faults, offered, budget, drift>>

\* ---------------------------------------------------------- specifications

\* One step of the upload thread t serves.
Step(t) ==
    \/ \E file_content \in Files, filename \in Filenames :
          process_file(t, file_content, filename)
    \/ steps_load_cache(t)
    \/ rate_limit_time(t)
    \/ rate_limit_check(t)
    \/ rate_limit_sleep(t)
    \/ rate_limit_now(t)
    \/ rate_limit_stamp(t)
    \/ \E outcome \in GeminiOutcomes, text \in StepsTexts :
          generate_content(t, outcome, text)
    \/ steps_save_cache(t)
    \/ code_load_cache(t)
    \/ \E outcome \in GroqOutcomes, text \in CodeTexts :
          completions_create(t, outcome, text)
    \/ code_save_cache(t)
    \/ insert_one(t)
    \/ update_one(t)

\* Concurrent uploads, MongoDB available, a clock that moves by sleeps only.
Next == \E t \in Threads : Step(t)

Spec == Init /\ [][Next]_vars

\* A single worker: uploads are served one after the other.
InitSeq == Start(FALSE, NamedUploads, MaxUploadsSeq, MaxJitter)

NextSeq == Step(1)

SpecSeq == InitSeq /\ [][NextSeq]_vars

\* Concurrent uploads of one and the same text file, the clock as in Spec.
InitSame == Start(FALSE, {<<"t1", "paper.txt">>}, MaxUploadsSame, 0)

SpecSame == InitSame /\ [][Next]_vars

\* A single worker with MongoDB operations that may raise.
InitFault == Start(TRUE, TwoFileUploads, MaxUploads, MaxJitter)

SpecFault == InitFault /\ [][NextSeq]_vars

\* rate_limit on its own: concurrent callers, any api_type.
InitThrottle == Start(FALSE, {}, MaxAcquires, MaxJitter)

ThrottleStep(t) ==
    \/ \E api_type \in ApiTypes : rate_limit(t, api_type)
    \/ rate_limit_time(t)
    \/ rate_limit_check(t)
    \/ rate_limit_sleep(t)
    \/ rate_limit_now(t)
    \/ rate_limit_stamp(t)

NextThrottle == \E t \in Threads : ThrottleStep(t)

SpecThrottle == InitThrottle /\ [][NextThrottle]_vars

\* ------------------------------------------------------------------ claims

Done(t) == frame[t].pc = "done"

\* The record find_one showed thread t, as it is now in files_collection.
RecordOf(t) == files[IndexOfId(frame[t].existing_file.id)]

\* The steps stage of thread t's upload has ended in an error of the service.
StepsFailed(t) ==
    /\ Done(t)
    /\ frame[t].gemini_calls > 0
    /\ frame[t].groq_calls = 0
    /\ frame[t].last_outcome # "ok"

\* The code stage of thread t's upload has ended in an error of the service.
CodeFailed(t) ==
    /\ Done(t)
    /\ frame[t].groq_calls > 0
    /\ frame[t].last_outcome # "ok"

\* C1 (cache idempotence): once an upload of some content has produced and
\* persisted both steps and code, every upload of the same content that starts
\* afterwards returns those same steps and code and calls neither service.
C1_CacheIdempotence ==
    \A t \in Threads :
        (Done(t) /\ frame[t].prior.kind # "none")
        => /\ frame[t].result.kind = "dict"
           /\ frame[t].result.steps = frame[t].prior.steps
           /\ frame[t].result.code = frame[t].prior.code
           /\ frame[t].gemini_calls = 0
           /\ frame[t].groq_calls = 0

C3_PartialSuccessShape ==
    \A t \in Threads :
        (CodeFailed(t) /\ Truthy(frame[t].steps))
        => /\ frame[t].result.kind = "dict"
           /\ frame[t].result.steps = frame[t].steps
           /\ frame[t].result.code = None
           /\ frame[t].result.error # None

\* C4 (retry exhaustion): the steps service is never called more than 3 times
\* for one upload, and an upload whose every call raised InternalServerError
\* has called it exactly 3 times and ends in the failure naming the steps.
C4_RetryExhaustion ==
    \A t \in Threads :
        /\ frame[t].gemini_calls <= 3
        /\ (StepsFailed(t) /\ frame[t].last_outcome = "InternalServerError")
           => /\ frame[t].gemini_calls = 3
              /\ frame[t].result.kind = "dict_500"
              /\ frame[t].result.error
                   = Str("Failed to generate steps from the paper")

C4_Witness ==
    \E t \in Threads :
        /\ StepsFailed(t)
        /\ frame[t].last_outcome = "InternalServerError"
        /\ frame[t].gemini_calls = 3

\* C5 (no retry on permanent failure): as soon as a call of the steps service
\* has raised ResourceExhausted or an unclassified exception the upload is
\* over, with the failure naming the steps: no call follows it, whatever the
\* number of attempts left.
C5_NoRetryOnPermanent ==
    \A t \in Threads :
        (/\ frame[t].gemini_calls > 0
         /\ frame[t].groq_calls = 0
         /\ frame[t].last_outcome \in {"ResourceExhausted", "Exception"})
        => /\ Done(t)
           /\ frame[t].result.kind = "dict_500"
           /\ frame[t].result.error
                = Str("Failed to generate steps from the paper")
           /\ frame[t].steps = None

C5_Witness ==
    \E t \in Threads :
        /\ Done(t)
        /\ frame[t].gemini_calls = 2
        /\ frame[t].last_outcome = "ResourceExhausted"

\* A step in which rate_limit returns to thread t.
AcquireReturns(t) ==
    /\ frame[t].pc = "rate_limit_stamp"
    /\ frame'[t].pc # "rate_limit_stamp"

\* The return of rate_limit is at least 60 / RATE_LIMIT after the previous
\* return for the same service.
FloorKept(t) ==
    IF frame[t].api_type = "gemini"
    THEN last_gemini_request' - last_gemini_request >= 60 \div 15
    ELSE last_groq_request' - last_groq_request >= 60 \div 30

\* C6 (throttle floor, single caller): with one worker, every return of
\* rate_limit is at least 60/N after the previous return for that service; when
\* less than 60/N has elapsed the caller is suspended for exactly the remaining
\* delta, otherwise not at all; the timestamp recorded is the time of return.
C6_ThrottleFloorSingleCaller ==
    [][ AcquireReturns(1)
        => /\ FloorKept(1)
           /\ LastRequest(frame[1].api_type)' = now'
           /\ LET interval == IF frame[1].api_type = "gemini"
                              THEN 60 \div 15 ELSE 60 \div 30
                  elapsed == frame[1].current_time
                             - LastRequest(frame[1].api_type)
              IN  /\ elapsed < interval
                     => frame[1].sleep_time = interval - elapsed
                  /\ elapsed >= interval => frame[1].sleep_time = 0
                  /\ now' >= frame[1].current_time + frame[1].sleep_time
      ]_vars

C6_Witness ==
    /\ frame[1].pc \in {"generate_content", "completions_create"}
    /\ frame[1].sleep_time > 0
    /\ LastRequest(frame[1].api_type) = now

\* C7 (throttle floor under concurrency): with concurrent workers, every
\* return of rate_limit is at least 60/N after the previous return of
\* rate_limit for that service, whichever thread that was.
C7_ThrottleFloorConcurrent ==
    [][ \A t \in Threads : AcquireReturns(t) => FloorKept(t) ]_vars

\* C8 (steps failure aborts the pipeline): an upload whose steps stage failed
\* has not called or acquired the code service, has written neither a record
\* nor a cache entry, and ends in the failure naming the steps.
C8_StepsFailureAborts ==
    \A t \in Threads :
        StepsFailed(t)
           => /\ frame[t].result
                   = Result("dict_500", None, None, None,
                            Str("Failed to generate steps from the paper"))
              /\ frame[t].groq_calls = 0
              /\ frame[t].groq_acquires = 0
              /\ frame[t].wrote = {}

C8_Witness ==
    \E t \in Threads :
        /\ StepsFailed(t)
        /\ frame[t].result.kind = "dict_500"
        /\ Len(files) = 1
        /\ files[1].content_hash # frame[t].content_hash
        /\ \A e \in cache : e.content_hash # frame[t].content_hash

\* C9 (storage write failures are swallowed): an upload that generated steps
\* and then met a failing write of the cache or the record store still returns
\* the generated steps and code.
C9_WriteFailuresSwallowed ==
    \A t \in Threads :
        (Done(t) /\ Truthy(frame[t].steps)
         /\ frame[t].failed \cap {"cache:steps", "cache:code",
                                  "insert_one", "update_one"} # {})
        => /\ frame[t].result.kind = "dict"
           /\ frame[t].result.steps = frame[t].steps

\* C10 (the record's code is the generated artifact): the code field of every
\* record is absent or is the text the code generator returned.
C10_RecordCodeIsArtifact ==
    \A i \in 1..Len(files) :
        \/ files[i].code = None
        \/ files[i].code \in {Str(text) : text \in CodeTexts}

\* C11 (one record per fingerprint): no two PaperRecords carry the same
\* content_hash, whatever the sequence or interleaving of uploads.
C11_OneRecordPerFingerprint ==
    \A i, j \in 1..Len(files) :
        files[i].content_hash = files[j].content_hash => i = j

\* A read of the record store or of the cache has failed during thread t's
\* upload.
ReadFailed(t) ==
    frame[t].failed \cap {"find_one", "load_cache:steps", "load_cache:code"}
        # {}

\* C12 (read failures degrade to a miss): an upload during which a read of the
\* cache or of the record store failed goes on as if nothing was stored; the
\* failed read is not what the request fails with.
C12_ReadFailureIsMiss ==
    \A t \in Threads :
        (Done(t) /\ ReadFailed(t))
        => /\ frame[t].result.error # Str("find_one")
           /\ frame[t].gemini_calls + frame[t].groq_calls > 0

\* The cache holds an entry under the key (h, ty).
CacheHolds(h, ty) == \E e \in cache : e.content_hash = h /\ e.type = ty

\* A step in which thread t runs the cache lookup that opens a stage.
StepsLookup(t) ==
    frame[t].pc = "steps_load_cache" /\ frame'[t] # frame[t]
CodeLookup(t) ==
    frame[t].pc = "code_load_cache" /\ frame'[t] # frame[t]

\* The keys the two stages look up.
StepsKey(t) == get_content_hash(TextOf(frame[t].content))
CodeKey(t) == get_content_hash(TextOf(frame[t].steps))

\* The step leaves the services, the timestamps and the cache alone.
NothingSent(t) ==
    /\ frame'[t].gemini_calls = frame[t].gemini_calls
    /\ frame'[t].groq_calls = frame[t].groq_calls
    /\ frame'[t].gemini_acquires = frame[t].gemini_acquires
    /\ frame'[t].groq_acquires = frame[t].groq_acquires
    /\ frame'[t].pc # "rate_limit_time"
    /\ last_gemini_request' = last_gemini_request
    /\ last_groq_request' = last_groq_request
    /\ cache' = cache

\* The stage returns the entry's data in this very step.
StepsHit(t) ==
    /\ frame'[t].pc = "code_load_cache"
    /\ frame'[t].steps = load_cache_hit(StepsKey(t), "steps")
    /\ NothingSent(t)
CodeHit(t) ==
    /\ frame'[t].pc = "store_record"
    /\ frame'[t].code = load_cache_hit(CodeKey(t), "code")
    /\ NothingSent(t)

Written(h, ty, data) ==
    cache' = {e \in cache : e.content_hash # h \/ e.type # ty}
             \cup {[content_hash |-> h, type |-> ty, data |-> data]}

\* The papers' texts, whose hashes key the steps entries.
PaperTexts == {"t1", "paper:pdf1"}

\* C14 (entries come from successful generations): the cache changes only in
\* the save that follows a call the service answered, by creating or
\* overwriting the one entry under the hash of that call's input with the
\* artifact returned; so every entry is keyed by the hash of an input of its
\* stage and holds a text of its service, and a failed call changes nothing.
C14_EntriesFromSuccess ==
    [][ /\ cache' # cache
           => \E t \in Threads :
                /\ frame[t].last_outcome = "ok"
                /\ frame'[t].wrote # frame[t].wrote
                /\ \/ /\ frame[t].pc = "steps_save_cache"
                      /\ frame[t].gemini_calls > 0
                      /\ Written(StepsKey(t), "steps", frame[t].steps)
                   \/ /\ frame[t].pc = "code_save_cache"
                      /\ frame[t].groq_calls > 0
                      /\ Written(CodeKey(t), "code", frame[t].code)
        /\ \A t \in Threads :
              (frame'[t].last_outcome # "ok" /\ frame'[t] # frame[t])
              => cache' = cache
        /\ \A e \in cache' :
              /\ e.type = "steps"
                 => /\ e.content_hash \in {get_content_hash(x) : x \in PaperTexts}
                    /\ e.data \in {Str(x) : x \in StepsTexts}
              /\ e.type = "code"
                 => /\ e.content_hash \in {get_content_hash(x) : x \in StepsTexts}
                    /\ e.data \in {Str(x) : x \in CodeTexts}
              /\ e.type \in {"steps", "code"}
              /\ \A d \in cache' :
                    (d.content_hash = e.content_hash /\ d.type = e.type) => d = e
      ]_vars

\* An upload whose first call of the steps service failed and whose second
\* was answered has overwritten the empty entry an earlier upload left.
C14_Witness ==
    \E t \in Threads :
        /\ frame[t].pc = "code_load_cache"
        /\ frame[t].gemini_calls = 2
        /\ "cache:steps" \in frame[t].wrote
        /\ frame[t].steps = Str("s1")
        /\ Len(files) = 1
        /\ files[1].content_hash = frame[t].content_hash
        /\ load_cache_hit(StepsKey(t), "steps") = Str("s1")

\* C15 (timestamps): neither service's timestamp ever decreases, also with
\* concurrent callers; a timestamp is written only by a return of rate_limit
\* for that service, and every call of a service follows an acquire of its
\* own: each attempt of the steps service, and the one call of the code service.
C15_TimestampsNeverDecrease ==
    [][ /\ last_gemini_request' >= last_gemini_request
        /\ last_groq_request' >= last_groq_request
        /\ last_gemini_request' # last_gemini_request
           => \E t \in Threads :
                 frame'[t].gemini_acquires = frame[t].gemini_acquires + 1
        /\ last_groq_request' # last_groq_request
           => \E t \in Threads :
                 frame'[t].groq_acquires = frame[t].groq_acquires + 1
        /\ \A t \in Threads :
              /\ frame'[t].gemini_calls = frame[t].gemini_calls + 1
                 => frame[t].gemini_acquires = frame[t].gemini_calls + 1
              /\ frame'[t].groq_calls = frame[t].groq_calls + 1
                 => /\ frame[t].groq_acquires = 1
                    /\ frame[t].groq_calls = 0
      ]_vars

\* A step of thread t inside rate_limit.
InRateLimit(t) ==
    /\ frame[t].pc \in {"rate_limit_time", "rate_limit_check",
                        "rate_limit_sleep", "rate_limit_now",
                        "rate_limit_stamp"}
    /\ frame'[t] # frame[t]

\* The time since the last request of the service thread t acquires, as
\* rate_limit has to see it, and that service's minimum interval.
OwnElapsed(t) ==
    IF frame[t].api_type = "gemini"
    THEN frame[t].current_time - last_gemini_request
    ELSE frame[t].current_time - last_groq_request
OwnInterval(t) == IF frame[t].api_type = "gemini" THEN 60 \div 15 ELSE 60 \div 30

\* C16 (service independence): rate_limit for one service leaves the other
\* service's timestamp unchanged, sleeps exactly when its own service's
\* timestamp is too recent and for a time computed from that one alone;
\* rate_limit for an unknown api type changes neither timestamp and never
\* sleeps.
C16_ServiceIndependence ==
    [][ \A t \in Threads :
          InRateLimit(t)
          => /\ frame[t].api_type # "gemini"
                => last_gemini_request' = last_gemini_request
             /\ frame[t].api_type # "groq"
                => last_groq_request' = last_groq_request
             /\ frame[t].api_type \in {"gemini", "groq"}
                => /\ frame[t].pc = "rate_limit_check"
                      => (frame'[t].pc = "rate_limit_sleep"
                            <=> OwnElapsed(t) < OwnInterval(t))
                   /\ frame[t].pc = "rate_limit_sleep"
                      => /\ frame'[t].sleep_time
                              = OwnInterval(t) - OwnElapsed(t)
                         /\ frame'[t].pc = "rate_limit_now"
                            => frame'[t].wake = frame[t].current_time
                                                + frame'[t].sleep_time
             /\ frame[t].api_type \notin {"gemini", "groq"}
                => /\ frame'[t].pc # "rate_limit_sleep"
                   /\ frame'[t].pc # "rate_limit_now"
                   /\ frame'[t].sleep_time = 0
                   /\ frame'[t].wake = 0
                   /\ frame[t].pc = "rate_limit_check"
                      => frame'[t].pc = frame[t].ret
      ]_vars

\* rate_limit with an unknown api type has returned without sleeping, right
\* after one worker's acquire for each of the two services at the same instant.
C16_Witness ==
    \E t \in Threads :
        /\ frame[t].pc = "done"
        /\ frame[t].api_type = "other"
        /\ frame[t].sleep_time = 0
        /\ last_gemini_request = now
        /\ last_groq_request = now
        /\ budget = 0

\* Thread t has inserted the record of a new upload, and record i is that of
\* an earlier upload of other content with the same steps text, for which the
\* cache holds a code entry that is not of t's writing.
SharesSteps(t, i) ==
    /\ Done(t)
    /\ "insert_one" \in frame[t].wrote
    /\ files[i].content_hash # frame[t].content_hash
    /\ files[i].steps = frame[t].steps
    /\ CacheHolds(CodeKey(t), "code")
    /\ "cache:code" \notin frame[t].wrote

\* C17 (code cache shared across papers): when an upload yields the steps text
\* an earlier upload of other content yielded, and the cache holds the code
\* entry written for that text, the upload makes no call of the code service
\* and the two records hold the same code.
C17_SharedCodeCache ==
    \A t \in Threads : \A i \in 1..Len(files) :
        SharesSteps(t, i)
        => /\ frame[t].groq_calls = 0
           /\ frame[t].groq_acquires = 0
           /\ files[i].code = frame[t].code

\* C18 (no code without steps): no record holds a populated code while its
\* steps are absent or the empty text.
C18_NoCodeWithoutSteps ==
    \A i \in 1..Len(files) :
        Truthy(files[i].code) => Truthy(files[i].steps)

\* C19 (termination and bounds): rate_limit only delays, for a finite and
\* non-negative time, and never fails; an upload calls the steps service at
\* most 3 times and the code service at most once, also with concurrent
\* uploads; an upload that has returned carries a result.
C19_AcquireOnlyDelays ==
    \A t \in Threads :
        /\ frame[t].gemini_calls <= 3
        /\ frame[t].groq_calls <= 1
        /\ frame[t].sleep_time >= 0
        /\ "rate_limit" \notin frame[t].failed
        /\ Done(t) => frame[t].result.kind # "none"

\* process_paper has returned to thread t's process_file with steps.
Returned(t) ==
    \/ frame[t].pc = "store_record"
    \/ Done(t) /\ frame[t].wrote \cap {"insert_one", "update_one"} # {}

\* C20 (process_paper returns a pair, never raises): when the steps stage
\* fails it returns (None, None); when only the code stage fails, the steps
\* and None; otherwise the steps and the code; called for a resume, its first
\* component is the steps it was given; and no upload ends in an exception.
C20_ProcessPaperReturnsPair ==
    \A t \in Threads :
        /\ StepsFailed(t)
           => /\ frame[t].steps = None
              /\ frame[t].code = None
              /\ frame[t].result = StepsFailure
        /\ CodeFailed(t)
           => /\ frame[t].steps \in {Str(x) : x \in StepsTexts}
              /\ frame[t].code = None
        /\ Returned(t)
           => /\ frame[t].steps \in {Str(x) : x \in StepsTexts}
              /\ frame[t].code \in {None} \cup {Str(x) : x \in CodeTexts}
              /\ frame[t].code = None
                 <=> (frame[t].groq_calls = 1 /\ frame[t].last_outcome # "ok")
              /\ Resuming(t) => frame[t].steps = frame[t].existing_file.steps
        /\ Done(t) => frame[t].result.kind \in {"dict", "dict_500"}

\* A resumed upload whose call of the code service failed: process_paper has
\* returned the steps it was given and None.
C20_Witness ==
    \E t \in Threads :
        /\ Resuming(t)
        /\ CodeFailed(t)
        /\ frame[t].steps = frame[t].existing_file.steps
        /\ frame[t].code = None
        /\ RecordOf(t).code = Pair(frame[t].steps, None)

====
